---- MODULE Spec2Model ----
(***************************************************************************)
(* Instance lifecycle manager of vllm-server.                              *)
(*                                                                         *)
(* Two implementations live in the repository and both are modelled:       *)
(*   impl = "redis"  : src/instance_manager/manager.py (asyncio + Redis),  *)
(*   impl = "legacy" : src/instance_manager.py + src/router.py + src/app.py *)
(*                     (threads + in-process registry).                    *)
(* A behaviour runs one of the two; Init chooses which.                    *)
(***************************************************************************)
EXTENDS Integers, Sequences, FiniteSets, TLC

VARIABLES
    impl,         \* which implementation this behaviour runs
    now,          \* time.time()
    procs,        \* OS process table: pid -> [port, state]
    redis_ports,  \* redis: the set stored under PORT_SET_KEY
    redis_recs,   \* redis: instance id -> persisted record (keys under INSTANCE_KEY_PREFIX)
    lock,         \* redis: InstanceManager.lock of each control plane (0 = free, else holder)
    instances,    \* legacy: InstanceManager.instances
    used_ports,   \* legacy: InstanceManager.used_ports
    mlock,        \* legacy: InstanceManager.lock (0 = free, else holder)
    th,           \* per task: position in the running operation and its locals
    hist          \* history: what has happened so far (read by the properties only)

vars == <<impl, now, procs, redis_ports, redis_recs, lock,
          instances, used_ports, mlock, th, hist>>

---------------------------------------------------------------------------
(* Bounds of the model *)
NumTasks == 2
MaxTime == 3
MaxProcs == 2
MaxInstances == 2
\* seconds between two readings of the clock
TickLen == 2

(* Program constants *)
VLLM_BASE_PORT == 9000
VLLM_DEFAULT_TIMEOUT == 600
BASE_PORT == 9000

Tasks == 1..NumTasks
\* redis: every task runs in a control plane of its own, each with its own
\* InstanceManager.lock (a lock shared by two tasks only removes interleavings)
CPs == Tasks
CPOf(t) == t
\* model names a call can give: sequences of characters
ModelNames == {<<"a", "/", "b">>}
\* timeout argument of a create call; 0 stands for None / omitted
TimeoutArgs == {1}
LegacyTimeoutArgs == {1}

RedisPortRange == VLLM_BASE_PORT .. (VLLM_BASE_PORT + MaxInstances - 1)
LegacyPortRange == BASE_PORT .. (BASE_PORT + MaxInstances - 1)

---------------------------------------------------------------------------
(* VLLMInstance, manager.py *)

\* str.replace('/', '_')
Replace(s) == [k \in 1..Len(s) |-> IF s[k] = "/" THEN "_" ELSE s[k]]

\* f"{model_name.replace('/', '_')}_{port}"
InstanceId(model_name, port) == <<Replace(model_name), port>>

NoInst == [model_name |-> <<>>, port |-> 0, timeout |-> 0, last_active |-> 0,
           pid |-> 0, process |-> 0, status |-> "none"]

\* VLLMInstance.__init__ ; pid 0 is None, last_active 0 is None/falsy
NewInstance(model_name, port, timeout, pid, last_active) ==
    [model_name |-> model_name, port |-> port, timeout |-> timeout,
     last_active |-> IF last_active = 0 THEN now ELSE last_active,
     pid |-> pid, process |-> 0, status |-> "starting"]

\* VLLMInstance.to_dict (params carry no state the lifecycle reads)
ToDict(inst) ==
    [instance_id |-> InstanceId(inst.model_name, inst.port),
     model_name |-> inst.model_name, port |-> inst.port, status |-> inst.status,
     last_active |-> inst.last_active, timeout |-> inst.timeout, pid |-> inst.pid]

\* VLLMInstance.from_dict
FromDict(data) ==
    NewInstance(data.model_name, data.port, data.timeout, data.pid, data.last_active)

\* VLLMInstance.is_expired
IsExpired(inst) == (now - inst.last_active) > inst.timeout

---------------------------------------------------------------------------
(* Redis commands *)

\* a SADD whose reply does not tell whether the member was new
SAddReplyAlwaysOne(set, member) == TRUE

\* SADD: reply 1 iff the member was not in the set
SAddReply(set, member) == member \notin set
SAdd(set, member) == set \cup {member}
\* SREM
SRem(set, member) == set \ {member}
\* SET key value
RSet(recs, id, data) == (id :> data) @@ recs
\* DEL key
RDel(recs, id) == [k \in (DOMAIN recs) \ {id} |-> recs[k]]

---------------------------------------------------------------------------
(* OS processes *)

Alive(pid) == pid \in 1..Len(procs) /\ procs[pid].state # "exited"

\* asyncio.create_subprocess_exec / subprocess.Popen: a new process, loading the model
Spawn(port) == Append(procs, [port |-> port, state |-> "loading"])

\* os.kill(pid, SIGTERM); ProcessLookupError when the process is gone
SigTerm(pid) ==
    IF Alive(pid) THEN [procs EXCEPT ![pid].state = "term"] ELSE procs

\* process.terminate(); wait(timeout=10); on timeout process.kill(): the process is gone
TerminateAndWait(pid) == [procs EXCEPT ![pid].state = "exited"]

---------------------------------------------------------------------------
EmptyMap == [k \in {} |-> NoInst]

\* snap: the port set as it was when _allocate_port was called (read by the
\* properties only); op, code: the endpoint a request is in and its HTTP status
Idle == [pc |-> "idle", model |-> <<>>, timeout |-> 0, i |-> 0, inst |-> NoInst,
         keys |-> {}, sweep |-> FALSE, route |-> FALSE, id |-> <<>>, snap |-> {},
         op |-> "none", code |-> 0, up |-> <<>>, rest |-> <<>>, out |-> <<>>,
         start |-> 0, polled |-> 0, params |-> <<>>, cmd |-> <<>>]

\* owners[p]: successful allocations of port p since its last release (capped at 2)
\* healthy: the processes whose readiness a health gate has confirmed
\* deleted: the instance ids whose record has been deleted
HistInit == [owners |-> [p \in RedisPortRange \cup LegacyPortRange |-> 0],
             healthy |-> {}, deleted |-> {}]

InitCommon ==
    /\ now = 1
    /\ procs = <<>>
    /\ redis_ports = {}
    /\ redis_recs = EmptyMap
    /\ lock = [c \in CPs |-> 0]
    /\ instances = EmptyMap
    /\ used_ports = {}
    /\ mlock = 0
    /\ th = [t \in Tasks |-> Idle]
    /\ hist = HistInit

InitRedis ==
    /\ impl = "redis"
    /\ InitCommon

---------------------------------------------------------------------------
(* InstanceManager, manager.py (impl = "redis") *)

\* what no step of manager.py touches
LegacyState == <<impl, instances, used_ports, mlock>>

\* the operation returns or raises to its caller
Finish(t) == th' = [th EXCEPT ![t] = Idle]

Goto(t, label) == th' = [th EXCEPT ![t].pc = label]

\* the OS process table holds MaxProcs entries; a launch fails when it is full
CanSpawn == Len(procs) < MaxProcs

\* DEL of the record of an instance
DeleteRecord(t) ==
    LET id == InstanceId(th[t].inst.model_name, th[t].inst.port) IN
    /\ redis_recs' = RDel(redis_recs, id)
    /\ hist' = [hist EXCEPT !.deleted = IF id \in DOMAIN redis_recs THEN @ \cup {id}
                                        ELSE @]

NoteClaim(port) ==
    hist' = [hist EXCEPT !.owners[port] = IF @ < 2 THEN @ + 1 ELSE @]
NoteRelease(port) ==
    hist' = [hist EXCEPT !.owners[port] = 0]

\* create_instance is called: _allocate_port takes self.lock
RCreateCall(t, model_name, timeout) ==
    /\ impl = "redis" /\ th[t].pc = "idle"
    /\ lock[CPOf(t)] = 0
    /\ lock' = [lock EXCEPT ![CPOf(t)] = t]
    /\ th' = [th EXCEPT ![t] = [Idle EXCEPT !.pc = "alloc", !.model = model_name,
                                            !.timeout = timeout,
                                            !.snap = redis_ports]]
    /\ UNCHANGED <<LegacyState, now, procs, redis_ports, redis_recs, hist>>

\* a range that goes one port past the last one
MoreToProbePastEnd(i) == i < MaxInstances

\* for port in range(VLLM_BASE_PORT, VLLM_BASE_PORT + VLLM_MAX_INSTANCES): after the
\* i-th port there is a next one
MoreToProbe(i) == i + 1 < MaxInstances

\* one iteration of the loop of _allocate_port: SADD of the next port of the range
RAllocProbe(t) ==
    /\ impl = "redis" /\ th[t].pc = "alloc"
    /\ LET port == VLLM_BASE_PORT + th[t].i IN
       IF SAddReply(redis_ports, port)
       THEN /\ redis_ports' = SAdd(redis_ports, port)
            /\ lock' = [lock EXCEPT ![CPOf(t)] = 0]
            /\ th' = [th EXCEPT ![t].pc = "start", ![t].snap = {},
                                ![t].inst = NewInstance(th[t].model, port,
                                    IF th[t].timeout = 0 THEN VLLM_DEFAULT_TIMEOUT
                                    ELSE th[t].timeout, 0, 0)]
            /\ NoteClaim(port)
       ELSE /\ redis_ports' = redis_ports
            /\ IF MoreToProbe(th[t].i)
               THEN /\ th' = [th EXCEPT ![t].i = @ + 1]
                    /\ UNCHANGED <<lock, hist>>
               ELSE \* raise RuntimeError('No available ports ...'), outside the try
                    /\ lock' = [lock EXCEPT ![CPOf(t)] = 0]
                    /\ hist' = hist
                    /\ Finish(t)
    /\ UNCHANGED <<LegacyState, now, procs, redis_recs>>

\* instance.start() succeeds; status = 'health_checking'; redis.set
RLaunch(t) ==
    /\ impl = "redis" /\ th[t].pc = "start"
    /\ CanSpawn
    /\ procs' = Spawn(th[t].inst.port)
    /\ LET pid == Len(procs')
           inst == [th[t].inst EXCEPT !.process = pid, !.pid = pid,
                                      !.last_active = now, !.status = "health_checking"]
       IN /\ th' = [th EXCEPT ![t].inst = inst, ![t].pc = "health"]
          /\ redis_recs' = RSet(redis_recs, InstanceId(inst.model_name, inst.port),
                                ToDict(inst))
    /\ UNCHANGED <<LegacyState, now, redis_ports, lock, hist>>

\* instance.start() raises (create_subprocess_exec fails): except branch, no pid
RLaunchFails(t) ==
    /\ impl = "redis" /\ th[t].pc = "start"
    /\ Goto(t, "ex_release")
    /\ UNCHANGED <<LegacyState, now, procs, redis_ports, redis_recs, lock, hist>>

\* a worker answers on the port
Listening(port) == \E pid \in 1..Len(procs) :
                      procs[pid].port = port /\ procs[pid].state = "ready"

\* _perform_health_check: a poll answered with 200 -> return True
RHealthOk(t) ==
    /\ impl = "redis" /\ th[t].pc = "health"
    /\ Listening(th[t].inst.port)
    /\ Goto(t, "healthy")
    /\ hist' = [hist EXCEPT !.healthy = @ \cup {th[t].inst.pid}]
    /\ UNCHANGED <<LegacyState, now, procs, redis_ports, redis_recs, lock>>

\* _perform_health_check: the poll raises httpx.RequestError; the except clause names
\* httpx.Timeout, which is no exception class, so matching raises TypeError, which
\* leaves _perform_health_check and reaches the except branch of create_instance
RHealthNetError(t) ==
    /\ impl = "redis" /\ th[t].pc = "health"
    /\ ~Listening(th[t].inst.port)
    /\ Goto(t, "ex_release")
    /\ UNCHANGED <<LegacyState, now, procs, redis_ports, redis_recs, lock, hist>>


\* is_healthy: status = 'running'; redis.set; return instance
RWriteRunning(t) ==
    /\ impl = "redis" /\ th[t].pc = "healthy"
    /\ LET inst == [th[t].inst EXCEPT !.status = "running"] IN
       redis_recs' = RSet(redis_recs, InstanceId(inst.model_name, inst.port), ToDict(inst))
    /\ Finish(t)
    /\ UNCHANGED <<LegacyState, now, procs, redis_ports, lock, hist>>

\* VLLMInstance.stop
StopProcs(inst) ==
    IF inst.process # 0 /\ Alive(inst.process) THEN TerminateAndWait(inst.process)
    ELSE IF inst.pid # 0 THEN SigTerm(inst.pid)
    ELSE procs

\* _perform_health_check: the while condition fails -> return False;
\* not is_healthy: await instance.stop()
RHealthTimeout(t) ==
    /\ impl = "redis" /\ th[t].pc = "health"
    /\ procs' = StopProcs(th[t].inst)
    /\ th' = [th EXCEPT ![t].pc = "rb_release", ![t].inst.status = "stopped"]
    /\ UNCHANGED <<LegacyState, now, redis_ports, redis_recs, lock, hist>>

\* a release that releases nothing
ReleasePortNoop(set, port) == set

\* _release_port
ReleasePort(set, port) == SRem(set, port)

\* self._release_port(port) at label from
ReleaseStep(t, from, to) ==
    /\ impl = "redis" /\ th[t].pc = from
    /\ redis_ports' = ReleasePort(redis_ports, th[t].inst.port)
    /\ NoteRelease(th[t].inst.port)
    /\ Goto(t, to)
    /\ UNCHANGED <<LegacyState, now, procs, redis_recs, lock>>

RRollbackRelease(t) == ReleaseStep(t, "rb_release", "rb_delete")

\* self.redis.delete(instance_key); raise RuntimeError -> caught by except Exception
RRollbackDelete(t) ==
    /\ impl = "redis" /\ th[t].pc = "rb_delete"
    /\ DeleteRecord(t)
    /\ Goto(t, "ex_release")
    /\ UNCHANGED <<LegacyState, now, procs, redis_ports, lock>>

\* except Exception: self._release_port(port)
RExceptRelease(t) == ReleaseStep(t, "ex_release", "ex_delete")

\* except Exception: self.redis.delete(instance_key)
RExceptDelete(t) ==
    /\ impl = "redis" /\ th[t].pc = "ex_delete"
    /\ DeleteRecord(t)
    /\ Goto(t, "ex_stop")
    /\ UNCHANGED <<LegacyState, now, procs, redis_ports, lock>>

\* except Exception: if instance.pid: await instance.stop(); raise e
RExceptStop(t) ==
    /\ impl = "redis" /\ th[t].pc = "ex_stop"
    /\ procs' = IF th[t].inst.pid # 0 THEN StopProcs(th[t].inst) ELSE procs
    /\ Finish(t)
    /\ UNCHANGED <<LegacyState, now, redis_ports, redis_recs, lock, hist>>

\* every instance id a call can name
AllIds == {InstanceId(m, p) : m \in ModelNames, p \in RedisPortRange}

\* get_instance
GetInstance(id) == IF id \in DOMAIN redis_recs THEN FromDict(redis_recs[id]) ELSE NoInst

\* delete_instance: get_instance(instance_id); if instance: await instance.stop()
DeleteEnter(t, id) ==
    LET inst == GetInstance(id) IN
    IF inst = NoInst
    THEN /\ procs' = procs
         /\ IF th[t].sweep /\ th[t].keys # {}
            THEN th' = [th EXCEPT ![t].pc = "sweep", ![t].inst = NoInst]
            ELSE Finish(t)
    ELSE /\ procs' = StopProcs(inst)
         /\ th' = [th EXCEPT ![t].pc = "del_release",
                             ![t].inst = [inst EXCEPT !.status = "stopped"]]

RDeleteCall(t, id) ==
    /\ impl = "redis" /\ th[t].pc = "idle"
    /\ DeleteEnter(t, id)
    /\ UNCHANGED <<LegacyState, now, redis_ports, redis_recs, lock, hist>>

\* delete_instance: self._release_port(instance.port)
RDeleteRelease(t) == ReleaseStep(t, "del_release", "del_delete")

\* delete_instance: self.redis.delete(key); back in cleanup_expired when called from it
RDeleteDel(t) ==
    /\ impl = "redis" /\ th[t].pc = "del_delete"
    /\ DeleteRecord(t)
    /\ IF th[t].sweep /\ th[t].keys # {}
       THEN th' = [th EXCEPT ![t].pc = "sweep", ![t].inst = NoInst]
       ELSE Finish(t)
    /\ UNCHANGED <<LegacyState, now, procs, redis_ports, lock>>

\* cleanup_expired: instance_keys = redis.keys(prefix*); return when there is none
RSweepCall(t) ==
    /\ impl = "redis" /\ th[t].pc = "idle"
    /\ IF DOMAIN redis_recs = {}
       THEN Finish(t)
       ELSE th' = [th EXCEPT ![t] = [Idle EXCEPT !.pc = "sweep", !.sweep = TRUE,
                                                 !.keys = DOMAIN redis_recs]]
    /\ UNCHANGED <<LegacyState, now, procs, redis_ports, redis_recs, lock, hist>>

\* cleanup_expired: one iteration: data = redis.get(key); from_dict; is_expired
RSweepNext(t) ==
    /\ impl = "redis" /\ th[t].pc = "sweep"
    /\ \E key \in th[t].keys :
         LET inst == GetInstance(key)
             rest == th[t].keys \ {key}
         IN IF inst # NoInst /\ IsExpired(inst)
            THEN th' = [th EXCEPT ![t].pc = "sweep_del", ![t].inst = inst,
                                  ![t].keys = rest]
            ELSE IF rest # {}
            THEN th' = [th EXCEPT ![t].keys = rest]
            ELSE Finish(t)
    /\ UNCHANGED <<LegacyState, now, procs, redis_ports, redis_recs, lock, hist>>

\* cleanup_expired: await self.delete_instance(instance.instance_id)
RSweepDelete(t) ==
    /\ impl = "redis" /\ th[t].pc = "sweep_del"
    /\ DeleteEnter(t, InstanceId(th[t].inst.model_name, th[t].inst.port))
    /\ UNCHANGED <<LegacyState, now, redis_ports, redis_recs, lock, hist>>

\* a caller re-reads a worker with get_instance in order to touch it
RTouchCall(t, id) ==
    /\ impl = "redis" /\ th[t].pc = "idle"
    /\ id \in DOMAIN redis_recs
    /\ th' = [th EXCEPT ![t] = [Idle EXCEPT !.pc = "touch", !.inst = GetInstance(id)]]
    /\ UNCHANGED <<LegacyState, now, procs, redis_ports, redis_recs, lock, hist>>

\* touch_instance: instance.touch(); redis.set(instance_key, to_dict)
RTouchSet(t) ==
    /\ impl = "redis" /\ th[t].pc = "touch"
    /\ LET inst == [th[t].inst EXCEPT !.last_active = now] IN
       redis_recs' = RSet(redis_recs, InstanceId(inst.model_name, inst.port), ToDict(inst))
    /\ Finish(t)
    /\ UNCHANGED <<LegacyState, now, procs, redis_ports, lock, hist>>

---------------------------------------------------------------------------
(* Environment *)

\* time passes
Tick ==
    /\ now + TickLen <= MaxTime
    /\ now' = now + TickLen
    /\ UNCHANGED <<LegacyState, procs, redis_ports, redis_recs, lock, th, hist>>

\* a worker has loaded its model and serves its port
ProcReady(pid) ==
    /\ procs[pid].state = "loading"
    /\ procs' = [procs EXCEPT ![pid].state = "ready"]
    /\ UNCHANGED <<LegacyState, now, redis_ports, redis_recs, lock, th, hist>>

\* a worker exits: after SIGTERM, or on its own (crash)
ProcExit(pid) ==
    /\ procs[pid].state # "exited"
    /\ procs' = [procs EXCEPT ![pid].state = "exited"]
    /\ UNCHANGED <<LegacyState, now, redis_ports, redis_recs, lock, th, hist>>

Env ==
    \/ Tick
    \/ \E pid \in 1..Len(procs) : ProcReady(pid)
    \/ \E pid \in 1..Len(procs) : ProcExit(pid)

NextRedis ==
    \/ \E t \in Tasks, m \in ModelNames, to \in TimeoutArgs : RCreateCall(t, m, to)
    \/ \E t \in Tasks : RAllocProbe(t)
    \/ \E t \in Tasks : RLaunch(t)
    \/ \E t \in Tasks : RLaunchFails(t)
    \/ \E t \in Tasks : RHealthOk(t)
    \/ \E t \in Tasks : RHealthNetError(t)
    \/ \E t \in Tasks : RHealthTimeout(t)
    \/ \E t \in Tasks : RWriteRunning(t)
    \/ \E t \in Tasks : RRollbackRelease(t)
    \/ \E t \in Tasks : RRollbackDelete(t)
    \/ \E t \in Tasks : RExceptRelease(t)
    \/ \E t \in Tasks : RExceptDelete(t)
    \/ \E t \in Tasks : RExceptStop(t)
    \/ \E t \in Tasks, id \in AllIds : RDeleteCall(t, id)
    \/ \E t \in Tasks : RDeleteRelease(t)
    \/ \E t \in Tasks : RDeleteDel(t)
    \/ \E t \in Tasks : RSweepCall(t)
    \/ \E t \in Tasks : RSweepNext(t)
    \/ \E t \in Tasks : RSweepDelete(t)
    \/ \E t \in Tasks, id \in AllIds : RTouchCall(t, id)
    \/ \E t \in Tasks : RTouchSet(t)
    \/ Env

SpecRedis == InitRedis /\ [][NextRedis]_vars

---------------------------------------------------------------------------
(* InstanceManager and VLLMInstance, instance_manager.py; get_or_create_instance,
   router.py (impl = "legacy"). Tasks are threads of one process. *)

RedisState == <<impl, redis_ports, redis_recs, lock>>

InitLegacy ==
    /\ impl = "legacy"
    /\ InitCommon

\* instance_id = f"{model_name.replace('/', '_')}_{port}"
LegacyInstanceId(model_name, port) == <<Replace(model_name), port>>

\* VLLMInstance.__init__
LegacyNewInstance(model_name, port, timeout) ==
    [model_name |-> model_name, port |-> port, timeout |-> timeout,
     last_active |-> now, pid |-> 0, process |-> 0, status |-> "starting"]

\* an allocator that takes the last free port of the range
LegacyFreePortHighest ==
    IF \E p \in LegacyPortRange : p \notin used_ports
    THEN CHOOSE p \in LegacyPortRange :
            /\ p \notin used_ports
            /\ \A q \in LegacyPortRange : q > p => q \in used_ports
    ELSE 0

\* _allocate_port: the first port of the range that is not in used_ports (0: none)
LegacyFreePort ==
    IF \E p \in LegacyPortRange : p \notin used_ports
    THEN CHOOSE p \in LegacyPortRange :
            /\ p \notin used_ports
            /\ \A q \in LegacyPortRange : q < p => q \in used_ports
    ELSE 0

\* VLLMInstance.stop: terminate(); wait(timeout=10); kill() on TimeoutExpired
LegacyStopProcs(inst) ==
    IF inst.process # 0 /\ Alive(inst.process) THEN TerminateAndWait(inst.process)
    ELSE procs

\* _release_port: used_ports.discard(port)
LegacyReleasePort(set, port) == set \ {port}

\* create_instance is called (by the API, or by get_or_create_instance on a miss)
\* and waits for self.lock
LCreateCall(t, model_name, timeout) ==
    /\ impl = "legacy" /\ th[t].pc = "idle"
    /\ th' = [th EXCEPT ![t] = [Idle EXCEPT !.pc = "lc_lock", !.model = model_name,
                                            !.timeout = timeout]]
    /\ UNCHANGED <<RedisState, now, procs, instances, used_ports, mlock, hist>>

\* proxy_openai_request with a body that names a model; get_or_create_instance: the
\* scan of instance_manager.instances finds a running instance of the model:
\* inst.touch(); return inst; the request is about to be forwarded
LRouteHit(t, id) ==
    /\ impl = "legacy" /\ th[t].pc = "idle"
    /\ id \in DOMAIN instances
    /\ instances[id].status = "running"
    /\ instances' = [instances EXCEPT ![id].last_active = now]
    /\ th' = [th EXCEPT ![t] = [Idle EXCEPT !.pc = "l_forward", !.route = TRUE,
                                            !.model = instances[id].model_name,
                                            !.inst = instances'[id]]]
    /\ UNCHANGED <<RedisState, now, procs, used_ports, mlock, hist>>

\* proxy_openai_request with a body that names a model; get_or_create_instance: the
\* scan finds none: create_instance(model_name, timeout)
LRouteMiss(t, model_name, timeout) ==
    /\ impl = "legacy" /\ th[t].pc = "idle"
    /\ ~ \E id \in DOMAIN instances :
           instances[id].model_name = model_name /\ instances[id].status = "running"
    /\ th' = [th EXCEPT ![t] = [Idle EXCEPT !.pc = "lc_lock", !.model = model_name,
                                            !.timeout = timeout, !.route = TRUE]]
    /\ UNCHANGED <<RedisState, now, procs, instances, used_ports, mlock, hist>>

\* create_instance: with self.lock: port = self._allocate_port(); VLLMInstance(...)
LCreateAlloc(t) ==
    /\ impl = "legacy" /\ th[t].pc = "lc_lock"
    /\ mlock = 0
    /\ LET port == LegacyFreePort IN
       IF port # 0
       THEN /\ used_ports' = used_ports \cup {port}
            /\ mlock' = t
            /\ th' = [th EXCEPT ![t].pc = "l_start",
                                ![t].inst = LegacyNewInstance(th[t].model, port,
                                                              th[t].timeout)]
            /\ NoteClaim(port)
       ELSE \* raise RuntimeError('No available ports ...'): the with block is left
            /\ Finish(t)
            /\ UNCHANGED <<used_ports, mlock, hist>>
    /\ UNCHANGED <<RedisState, now, procs, instances>>

\* create_instance: instance.start() (Popen; status = 'running'); the instance is
\* registered; the lock is released; a route goes on to wait for readiness
LCreateStart(t) ==
    /\ impl = "legacy" /\ th[t].pc = "l_start"
    /\ CanSpawn
    /\ procs' = Spawn(th[t].inst.port)
    /\ LET inst == [th[t].inst EXCEPT !.process = Len(procs'), !.status = "running",
                                      !.last_active = now]
       IN /\ instances' = RSet(instances,
                               LegacyInstanceId(inst.model_name, inst.port), inst)
          /\ IF th[t].route
             THEN th' = [th EXCEPT ![t].pc = "l_wait", ![t].inst = inst]
             ELSE Finish(t)
    /\ mlock' = 0
    /\ UNCHANGED <<RedisState, now, used_ports, hist>>

\* create_instance: Popen raises: the with block is left, the exception propagates
LCreateStartFails(t) ==
    /\ impl = "legacy" /\ th[t].pc = "l_start"
    /\ mlock' = 0
    /\ Finish(t)
    /\ UNCHANGED <<RedisState, now, procs, instances, used_ports, hist>>

\* get_or_create_instance: a poll of /v1/models answers 200: return inst; the
\* request is about to be forwarded
LWaitReady(t) ==
    /\ impl = "legacy" /\ th[t].pc = "l_wait"
    /\ Listening(th[t].inst.port)
    /\ hist' = [hist EXCEPT !.healthy = @ \cup {th[t].inst.process}]
    /\ Goto(t, "l_forward")
    /\ UNCHANGED <<RedisState, now, procs, instances, used_ports, mlock>>

\* get_or_create_instance: WAIT_READY_TIMEOUT polls have failed: raise RuntimeError
LWaitGiveUp(t) ==
    /\ impl = "legacy" /\ th[t].pc = "l_wait"
    /\ Finish(t)
    /\ UNCHANGED <<RedisState, now, procs, instances, used_ports, mlock, hist>>

\* ChatCompletions.post on what proxy_openai_request returned: a 3-tuple
\* (content, status, headers) is answered with its status; the error results are
\* 2-tuples ({'message': ...}, status), which "content, status, headers = result"
\* cannot unpack: ValueError, answered with 500; so is an exception of the proxy
\* itself (arity 0)
PostStatus(result) == IF result.arity = 3 THEN result.status ELSE 500

\* a forward that goes to whichever worker answers
LegacyForwardToAny(port) ==
    IF \E pid \in 1..Len(procs) : procs[pid].state = "ready"
    THEN [status |-> 200, arity |-> 3]
    ELSE [status |-> 500, arity |-> 2]

\* what the single requests.request to the worker of a port makes the proxy
\* return: the worker's answer as a 3-tuple, or the 2-tuple
\* ({'message': 'Proxy error: ...'}, 500) when the request raises
LegacyForwardOnce(port) ==
    IF Listening(port) THEN [status |-> 200, arity |-> 3]
                       ELSE [status |-> 500, arity |-> 2]

\* proxy_openai_request: requests.request(...) to inst.port; except Exception: 500
LForward(t) ==
    /\ impl = "legacy" /\ th[t].pc = "l_forward"
    /\ th' = [th EXCEPT ![t].pc = "l_resp", ![t].op = "forwarded",
                        ![t].code = PostStatus(LegacyForwardOnce(th[t].inst.port))]
    /\ UNCHANGED <<RedisState, now, procs, instances, used_ports, mlock, hist>>

\* the request bodies that name no model: a falsy JSON body (null, {}, [], 0, ""),
\* a JSON object without 'model' or with an empty one, a non-empty JSON value that
\* is not an object
NoModelBodies == {"falsy", "no_model", "array"}

\* proxy_openai_request, lines 45-53, on a body without model name: a falsy body
\* skips the parse and a dict answers None, both return ({'message': ...}, 400);
\* any other JSON value has no method get: AttributeError (arity 0)
ParseResult(body) ==
    IF body = "array" THEN [status |-> 500, arity |-> 0]
                      ELSE [status |-> 400, arity |-> 2]

\* ChatCompletions.post with a body that names no model
LProxyNoModel(t, body) ==
    /\ impl = "legacy" /\ th[t].pc = "idle"
    /\ th' = [th EXCEPT ![t] = [Idle EXCEPT !.pc = "l_resp", !.op = body,
                                            !.code = PostStatus(ParseResult(body))]]
    /\ UNCHANGED <<RedisState, now, procs, instances, used_ports, mlock, hist>>

\* the response is sent
LRespond(t) ==
    /\ impl = "legacy" /\ th[t].pc = "l_resp"
    /\ Finish(t)
    /\ UNCHANGED <<RedisState, now, procs, instances, used_ports, mlock, hist>>

LegacyIds == {LegacyInstanceId(m, p) : m \in ModelNames, p \in LegacyPortRange}

\* delete_instance is called and waits for self.lock
LDeleteCall(t, id) ==
    /\ impl = "legacy" /\ th[t].pc = "idle"
    /\ th' = [th EXCEPT ![t] = [Idle EXCEPT !.pc = "ld_lock", !.id = id]]
    /\ UNCHANGED <<RedisState, now, procs, instances, used_ports, mlock, hist>>

\* delete_instance: with self.lock: instance = self.instances.pop(instance_id, None)
LDeletePop(t) ==
    /\ impl = "legacy" /\ th[t].pc = "ld_lock"
    /\ mlock = 0
    /\ IF th[t].id \in DOMAIN instances
       THEN /\ instances' = RDel(instances, th[t].id)
            /\ mlock' = t
            /\ th' = [th EXCEPT ![t].pc = "ld_stop", ![t].inst = instances[th[t].id]]
            /\ hist' = [hist EXCEPT !.deleted = @ \cup {th[t].id}]
       ELSE /\ Finish(t)
            /\ UNCHANGED <<instances, mlock, hist>>
    /\ UNCHANGED <<RedisState, now, procs, used_ports>>

\* delete_instance: instance.stop(); self._release_port(instance.port); lock released
LDeleteStop(t) ==
    /\ impl = "legacy" /\ th[t].pc = "ld_stop"
    /\ procs' = LegacyStopProcs(th[t].inst)
    /\ used_ports' = LegacyReleasePort(used_ports, th[t].inst.port)
    /\ NoteRelease(th[t].inst.port)
    /\ mlock' = 0
    /\ Finish(t)
    /\ UNCHANGED <<RedisState, now, instances>>

\* is_expired, instance_manager.py
LegacyIsExpired(inst) == (now - inst.last_active) > inst.timeout

\* cleanup_expired is called by the cleanup thread and waits for self.lock
LSweepCall(t) ==
    /\ impl = "legacy" /\ th[t].pc = "idle"
    /\ th' = [th EXCEPT ![t] = [Idle EXCEPT !.pc = "ls_lock"]]
    /\ UNCHANGED <<RedisState, now, procs, instances, used_ports, mlock, hist>>

\* cleanup_expired: with self.lock: expired = [...]; for iid in expired:
\* self.delete_instance(iid), which waits for self.lock, held by this very thread
LSweepScan(t) ==
    /\ impl = "legacy" /\ th[t].pc = "ls_lock"
    /\ mlock = 0
    /\ LET expired == {id \in DOMAIN instances : LegacyIsExpired(instances[id])} IN
       IF expired = {}
       THEN Finish(t) /\ UNCHANGED mlock
       ELSE /\ mlock' = t
            /\ \E id \in expired :
                 th' = [th EXCEPT ![t].pc = "ld_lock", ![t].id = id, ![t].sweep = TRUE,
                                  ![t].keys = expired \ {id}]
    /\ UNCHANGED <<RedisState, now, procs, instances, used_ports, hist>>

NextLegacy ==
    \/ \E t \in Tasks, m \in ModelNames, to \in LegacyTimeoutArgs : LCreateCall(t, m, to)
    \/ \E t \in Tasks, id \in LegacyIds : LRouteHit(t, id)
    \/ \E t \in Tasks, m \in ModelNames, to \in LegacyTimeoutArgs : LRouteMiss(t, m, to)
    \/ \E t \in Tasks : LCreateAlloc(t)
    \/ \E t \in Tasks : LCreateStart(t)
    \/ \E t \in Tasks : LCreateStartFails(t)
    \/ \E t \in Tasks : LWaitReady(t)
    \/ \E t \in Tasks : LWaitGiveUp(t)
    \/ \E t \in Tasks : LForward(t)
    \/ \E t \in Tasks, body \in NoModelBodies : LProxyNoModel(t, body)
    \/ \E t \in Tasks : LRespond(t)
    \/ \E t \in Tasks, id \in LegacyIds : LDeleteCall(t, id)
    \/ \E t \in Tasks : LDeletePop(t)
    \/ \E t \in Tasks : LDeleteStop(t)
    \/ \E t \in Tasks : LSweepCall(t)
    \/ \E t \in Tasks : LSweepScan(t)
    \/ Env

SpecLegacy == InitLegacy /\ [][NextLegacy]_vars

---------------------------------------------------------------------------
Init == InitRedis \/ InitLegacy
Next == NextRedis \/ NextLegacy
Spec == Init /\ [][Next]_vars

---------------------------------------------------------------------------
(* Properties *)

AllPorts == RedisPortRange \cup LegacyPortRange

\* the claimed ports, the persisted records and the process of a record, in either
\* implementation
Claimed == IF impl = "redis" THEN redis_ports ELSE used_ports
Records == IF impl = "redis" THEN redis_recs ELSE instances
ProcOf(rec) == IF impl = "redis" THEN rec.pid ELSE rec.process

\* C1: between two successful allocations of one port there is a release of it:
\* no port has been allocated twice since its last release.
C1_NoDoubleAllocation == \A p \in AllPorts : hist.owners[p] <= 1

\* two creations of different control planes have both been given a port
C1_Witness ==
    /\ impl = "redis"
    /\ \E t, u \in Tasks : /\ t # u
                           /\ th[t].pc = "start" /\ th[u].pc = "start"
                           /\ th[t].inst.port # th[u].inst.port

\* the live workers of a port: the launched, not yet terminated processes of the port
\* and the processes of the persisted records of the port
LiveWorkers(p) ==
    {pid \in 1..Len(procs) : procs[pid].port = p /\ Alive(pid)}
      \cup {ProcOf(Records[id]) : id \in {k \in DOMAIN Records : Records[k].port = p}}

\* C2: in every reachable state no two live workers hold the same port.
C2_OneWorkerPerPort == \A p \in AllPorts : Cardinality(LiveWorkers(p)) <= 1

\* the creation of task t returns its error after a health gate that did not confirm
\* readiness: manager.py re-raises at the end of the except branch of a launched
\* worker, router.py raises after the last failed poll
GateFailureReturns(t) ==
    /\ th'[t].pc = "idle"
    /\ \/ impl = "redis" /\ th[t].pc = "ex_stop" /\ th[t].inst.pid # 0
       \/ impl = "legacy" /\ th[t].pc = "l_wait" /\ th[t].inst.process \notin hist'.healthy

\* C3: when a creation returns the error of a health gate that did not confirm
\* readiness, the worker's process has been terminated, its port is free and its
\* record is absent.
C3_FailedGateTearsDown ==
    [][\A t \in Tasks : GateFailureReturns(t) =>
          LET inst == th[t].inst
              pid == IF impl = "redis" THEN inst.pid ELSE inst.process
          IN /\ procs'[pid].state = "exited"
             /\ inst.port \notin Claimed'
             /\ InstanceId(inst.model_name, inst.port) \notin DOMAIN Records']_vars

\* C4: a record has status running only if a health gate has confirmed the readiness
\* of its process.
C4_RunningOnlyAfterGate ==
    \A id \in DOMAIN Records :
        Records[id].status = "running" => ProcOf(Records[id]) \in hist.healthy

\* position of a status along starting -> health_checking -> running -> stopped
StatusRank(status) ==
    CASE status = "starting" -> 0
      [] status = "health_checking" -> 1
      [] status = "running" -> 2
      [] OTHER -> 3

\* C6: no step rewrites the persisted status of an id with an earlier status of
\* starting -> health_checking -> running -> stopped.
C6_StatusOnlyForward ==
    [][\A id \in (DOMAIN Records) \cap (DOMAIN Records') :
          StatusRank(Records'[id].status) >= StatusRank(Records[id].status)]_vars

\* C7: once the record of an id has been deleted, no step writes a record under
\* that id again.
C7_DeletedNeverRevived ==
    [][\A id \in hist.deleted :
          id \notin DOMAIN Records => id \notin DOMAIN Records']_vars

\* no creation, teardown or sweep is in flight
Quiescent == \A t \in Tasks : th[t].pc = "idle"

\* C8: whenever no operation is in flight, the claimed ports are exactly the ports
\* of the persisted records.
C8_PortsMatchRecords ==
    Quiescent => Claimed = {Records[id].port : id \in DOMAIN Records}

\* every port of the range is claimed
AllClaimed ==
    IF impl = "redis" THEN RedisPortRange \subseteq redis_ports
    ELSE LegacyPortRange \subseteq used_ports

\* task t takes a step of _allocate_port
Allocating(t) == th[t].pc \in {"alloc", "lc_lock"} /\ th'[t] # th[t]

\* C9: a step of an allocation taken while every port of the range is claimed claims
\* no port and hands none out: it is the raise of 'No available ports' (or, in
\* manager.py, the move to the next port of the range), and it leaves the port set,
\* the records and the processes as they were.
C9_ExhaustedAllocationFails ==
    [][\A t \in Tasks : (AllClaimed /\ Allocating(t)) =>
          /\ \/ th'[t].pc = "idle"
             \/ th'[t].pc = "alloc" /\ th'[t].i = th[t].i + 1 /\ th'[t].i < MaxInstances
          /\ Claimed' = Claimed
          /\ Records' = Records
          /\ procs' = procs]_vars

\* an allocation has found every port but the last of the range claimed and is about
\* to try the last one, which is claimed too
C9_Witness ==
    /\ AllClaimed
    /\ \E t \in Tasks : th[t].pc = "alloc" /\ th[t].i = MaxInstances - 1

\* task t takes the step that calls _release_port
Releasing(t) ==
    /\ th[t].pc \in {"rb_release", "ex_release", "del_release", "ld_stop"}
    /\ th'[t] # th[t]

\* C10: a release of port p leaves the port set without p and otherwise as it was (so
\* unchanged when p was already free), and p passes the allocator's test right after.
C10_ReleaseIdempotentEffective ==
    [][\A t \in Tasks : Releasing(t) =>
          LET p == th[t].inst.port IN
          /\ Claimed' = Claimed \ {p}
          /\ IF impl = "redis" THEN SAddReply(redis_ports', p) ELSE p \notin used_ports']_vars

\* the rollback of a failed health gate has released its port a second time, in the
\* except branch, and the port is free
C10_Witness ==
    \E t \in Tasks : /\ th[t].pc = "ex_delete"
                     /\ th[t].inst.status = "stopped"
                     /\ th[t].inst.port \notin redis_ports

---------------------------------------------------------------------------
(* The legacy control plane under a fair scheduler: every thread that can take a
   step of its operation eventually takes it, a thread waiting for the lock gets it
   if it is free again and again, and the cleanup thread (task 1) calls
   cleanup_expired again and again (app.py, cleanup_expired_instances). *)

\* a step of the operation task t is in
LegacyStep(t) ==
    \/ LCreateAlloc(t) \/ LCreateStart(t) \/ LCreateStartFails(t)
    \/ LWaitReady(t) \/ LWaitGiveUp(t) \/ LForward(t) \/ LRespond(t)
    \/ LDeletePop(t) \/ LDeleteStop(t) \/ LSweepScan(t)

SpecLegacyFair ==
    /\ SpecLegacy
    /\ \A t \in Tasks : SF_vars(LegacyStep(t))
    /\ SF_vars(LSweepCall(1))

\* C5: a record whose idle time exceeds its timeout is eventually reclaimed by the
\* reaper (its record gone and its port free), unless it is touched meanwhile.
C5_ExpiredEventuallyReclaimed ==
    \A id \in LegacyIds \cup AllIds :
        (id \in DOMAIN Records /\ now - Records[id].last_active > Records[id].timeout)
          ~> \/ id \notin DOMAIN Records /\ id[2] \notin Claimed
             \/ id \in DOMAIN Records
                /\ ~(now - Records[id].last_active > Records[id].timeout)

---------------------------------------------------------------------------
\* the smallest port of a range that is not in a set (0: there is none)
LowestFree(range, set) ==
    IF range \ set = {} THEN 0
    ELSE CHOOSE p \in range \ set : \A q \in range \ set : p <= q

\* the allocation of task t succeeds in this step
AllocationSucceeds(t) ==
    \/ th[t].pc = "alloc" /\ th'[t].pc = "start"
    \/ th[t].pc = "lc_lock" /\ th'[t].pc = "l_start"

---------------------------------------------------------------------------
(* The HTTP endpoints of api/router.py over a store that earlier creations of the
   manager have filled, and the reaper of manager.py with a store that can fail. *)

\* the store, ports and processes after n creations have passed their health gate
\* at time 1 (the state RWriteRunning leaves), n <= MaxInstances, n <= MaxProcs
ServedRecord(k) ==
    ToDict([NewInstance(CHOOSE m \in ModelNames : TRUE, VLLM_BASE_PORT + k - 1,
                        CHOOSE to \in TimeoutArgs : TRUE, k, 1)
            EXCEPT !.status = "running"])

InitApi ==
    /\ impl = "redis"
    /\ now = 1
    /\ lock = [c \in CPs |-> 0]
    /\ instances = EmptyMap
    /\ used_ports = {}
    /\ mlock = 0
    /\ th = [t \in Tasks |-> Idle]
    /\ \E n \in 0..MaxProcs :
         /\ n <= MaxInstances
         /\ procs = [k \in 1..n |-> [port |-> VLLM_BASE_PORT + k - 1, state |-> "ready"]]
         /\ redis_ports = {VLLM_BASE_PORT + k - 1 : k \in 1..n}
         /\ redis_recs = [id \in {ServedRecord(k).instance_id : k \in 1..n} |->
                             ServedRecord(id[2] - VLLM_BASE_PORT + 1)]
         /\ hist = [owners |-> [p \in RedisPortRange \cup LegacyPortRange |->
                                   IF p \in {VLLM_BASE_PORT + k - 1 : k \in 1..n}
                                   THEN 1 ELSE 0],
                    healthy |-> 1..n, deleted |-> {}]

\* what an endpoint that calls no manager code leaves alone
StoreState == <<now, procs, redis_ports, redis_recs, lock, hist>>

\* the endpoint answers with an HTTP status
Respond(t, op, id, code) ==
    th' = [th EXCEPT ![t] = [Idle EXCEPT !.pc = "api_resp", !.op = op, !.id = id,
                                         !.code = code]]

\* POST /instances: 400 without a model name; otherwise create_instance(...) is called
\* without await, so it only builds a coroutine object, whose attribute status_dict
\* does not exist: AttributeError, answered as 500
ApiCreate(t, model_name) ==
    /\ impl = "redis" /\ th[t].pc = "idle"
    /\ Respond(t, "create", <<>>, IF model_name = <<>> THEN 400 ELSE 500)
    /\ UNCHANGED <<LegacyState, StoreState>>

\* DELETE /instances/{instance_id}: 404 when get_instance finds nothing; otherwise
\* delete_instance(...) is called without await (the coroutine never runs) and the
\* answer is {"status": "deleted"}
ApiDelete(t, id) ==
    /\ impl = "redis" /\ th[t].pc = "idle"
    /\ Respond(t, "delete", id, IF GetInstance(id) = NoInst THEN 404 ELSE 200)
    /\ UNCHANGED <<LegacyState, StoreState>>

\* proxy_to_vllm: inst = get_instance(instance_id); 404 when there is none
ApiProxy(t, id) ==
    /\ impl = "redis" /\ th[t].pc = "idle"
    /\ IF GetInstance(id) = NoInst
       THEN Respond(t, "proxy", id, 404)
       ELSE th' = [th EXCEPT ![t] = [Idle EXCEPT !.pc = "api_forward", !.op = "proxy",
                                                 !.id = id, !.inst = GetInstance(id)]]
    /\ UNCHANGED <<LegacyState, StoreState>>

\* the status the single forward of proxy_to_vllm ends with:
\* client.request(method, url, headers=..., content=..., stream=True) passes a keyword
\* that httpx.AsyncClient.request does not take, so the call raises TypeError inside
\* the try, whether the worker listens or not; except Exception answers 500
ForwardOnce(port) == 500

\* proxy_to_vllm: client.request(...) to the worker; except Exception: 500
ApiForward(t) ==
    /\ impl = "redis" /\ th[t].pc = "api_forward"
    /\ th' = [th EXCEPT ![t].pc = "api_resp", ![t].code = ForwardOnce(th[t].inst.port)]
    /\ UNCHANGED <<LegacyState, StoreState>>

\* the response is sent
ApiReturn(t) ==
    /\ impl = "redis" /\ th[t].pc = "api_resp"
    /\ Finish(t)
    /\ UNCHANGED <<LegacyState, StoreState>>

\* delete_instance called by cleanup_expired: a command of the store raises
\* (redis.exceptions.ConnectionError); nothing catches it, cleanup_expired ends
RSweepTeardownRaises(t) ==
    /\ impl = "redis" /\ th[t].sweep
    /\ th[t].pc \in {"del_release", "del_delete"}
    /\ Finish(t)
    /\ UNCHANGED <<LegacyState, StoreState>>

NextApi ==
    \/ \E t \in Tasks, m \in ModelNames \cup {<<>>} : ApiCreate(t, m)
    \/ \E t \in Tasks, id \in AllIds : ApiDelete(t, id)
    \/ \E t \in Tasks, id \in AllIds : ApiProxy(t, id)
    \/ \E t \in Tasks : ApiForward(t)
    \/ \E t \in Tasks : ApiReturn(t)
    \/ \E t \in Tasks : RSweepCall(t)
    \/ \E t \in Tasks : RSweepNext(t)
    \/ \E t \in Tasks : RSweepDelete(t)
    \/ \E t \in Tasks : RDeleteRelease(t)
    \/ \E t \in Tasks : RDeleteDel(t)
    \/ \E t \in Tasks : RSweepTeardownRaises(t)
    \/ Tick
    \/ \E pid \in 1..Len(procs) : ProcExit(pid)

SpecApi == InitApi /\ [][NextApi]_vars

\* the endpoint DELETE /instances/{instance_id} handles a request of task t
DeleteHandled(t) ==
    th[t].pc = "idle" /\ th'[t].pc = "api_resp" /\ th'[t].op = "delete"

\* C12: a delete of a worker id that is not in the store is answered with success and
\* changes nothing: records, port set and processes are as before.
C12_DeleteAbsentSucceeds ==
    [][\A t \in Tasks :
          (DeleteHandled(t) /\ th'[t].id \notin DOMAIN redis_recs) =>
             /\ th'[t].code = 200
             /\ redis_recs' = redis_recs
             /\ redis_ports' = redis_ports
             /\ procs' = procs]_vars

\* C13: when a delete of an existing worker id is answered with success, the teardown
\* has been carried out: the worker's process has been signalled to terminate, its
\* port is free and its record is absent.
C13_DeleteSuccessMeansTornDown ==
    [][\A t \in Tasks :
          (DeleteHandled(t) /\ th'[t].id \in DOMAIN redis_recs /\ th'[t].code = 200) =>
             LET rec == redis_recs[th'[t].id] IN
             /\ ~(rec.pid \in 1..Len(procs') /\ procs'[rec.pid].state \in {"loading", "ready"})
             /\ rec.port \notin redis_ports'
             /\ th'[t].id \notin DOMAIN redis_recs']_vars

\* C14: a proxy call that resolves to an existing worker refreshes the worker's
\* last_active in its record before it forwards.
C14_ProxyRefreshesLastActive ==
    [][\A t \in Tasks :
          (th[t].pc = "idle" /\ th'[t].pc = "api_forward") =>
             /\ th'[t].id \in DOMAIN redis_recs'
             /\ redis_recs'[th'[t].id].last_active = now]_vars

\* C15: no step lowers the persisted last_active of a worker id whose record is not
\* stopped.
C15_LastActiveNeverDecreases ==
    [][\A id \in (DOMAIN Records) \cap (DOMAIN Records') :
          Records'[id].status # "stopped" =>
             Records'[id].last_active >= Records[id].last_active]_vars

\* C16: a route call whose request names no model is answered with a 4xx status and
\* touches nothing: no record read or refreshed, no port claimed, no worker created.
C16_NoModelRejectedEarly ==
    [][\A t \in Tasks :
          (th[t].pc = "idle" /\ th'[t].pc = "l_resp" /\ th'[t].op \in NoModelBodies) =>
             /\ th'[t].code \in 400..499
             /\ instances' = instances
             /\ used_ports' = used_ports
             /\ procs' = procs
             /\ mlock' = mlock]_vars

\* C17: a route or proxy call forwards once: the step that forwards ends the call
\* with the worker's answer or, when the worker cannot be reached, with the error
\* status, and it creates, registers and launches nothing; the response is then sent.
C17_SingleForwardAttempt ==
    [][\A t \in Tasks :
          /\ th[t].pc \in {"l_forward", "api_forward"} /\ th'[t] # th[t] =>
                /\ th'[t].pc \in {"l_resp", "api_resp"}
                /\ ~Listening(th[t].inst.port) => th'[t].code = 500
                /\ Records' = Records
                /\ Claimed' = Claimed
                /\ procs' = procs
          /\ th[t].pc \in {"l_resp", "api_resp"} /\ th'[t] # th[t] =>
                /\ th'[t].pc = "idle"
                /\ Records' = Records
                /\ Claimed' = Claimed
                /\ procs' = procs]_vars

\* a route call created a worker and saw it ready, the worker died before the
\* forward, and the call has ended in the error status
C17_Witness ==
    \E t \in Tasks : /\ th[t].pc = "l_resp" /\ th[t].op = "forwarded"
                     /\ th[t].code = 500
                     /\ th[t].inst.process \in hist.healthy
                     /\ ~Alive(th[t].inst.process)

\* C18: a readiness poll that fails with a network error does not end the wait and
\* is not raised to the caller: from the wait, with the worker not answering, a
\* call either keeps waiting or leaves by the timeout.
C18_NetErrorKeepsPolling ==
    [][\A t \in Tasks :
          /\ (th[t].pc = "health" /\ ~Listening(th[t].inst.port) /\ th'[t] # th[t]) =>
                th'[t].pc \in {"health", "rb_release"}
          /\ (th[t].pc = "l_wait" /\ ~Listening(th[t].inst.port) /\ th'[t] # th[t]) =>
                th'[t] = Idle]_vars

\* C19: a sweep of the reaper that is tearing down one expired worker, with another
\* expired worker still to visit, goes on: no step of the teardown ends the sweep.
C19_SweepSurvivesTeardownError ==
    [][\A t \in Tasks :
          (/\ th[t].sweep
           /\ th[t].pc \in {"del_release", "del_delete"}
           /\ \E key \in th[t].keys :
                 GetInstance(key) # NoInst /\ IsExpired(GetInstance(key))) =>
             th'[t].pc # "idle"]_vars

\* C20: creation is idempotent per model name: a route call launches a worker for
\* its model only when no other route call has launched one for the same model
\* that is still registered as running.
C20_OneLaunchPerModel ==
    [][\A t \in Tasks :
          (th[t].route /\ th[t].pc = "l_start" /\ th'[t].pc = "l_wait") =>
             ~ \E u \in Tasks \ {t} :
                  /\ th[u].route /\ th[u].pc = "l_wait"
                  /\ th[u].model = th[t].model
                  /\ \E id \in DOMAIN instances :
                        /\ instances[id] = th[u].inst
                        /\ instances[id].status = "running"]_vars

\* C21: no suspension point is executed under the port-allocation lock: a task that
\* launches a process, polls for readiness or forwards a request does not hold the
\* lock of its manager while it takes that step.
C21_NoSuspensionUnderLock ==
    [][\A t \in Tasks :
          (/\ th[t].pc \in {"start", "health", "l_start", "l_wait", "l_forward"}
           /\ th'[t] # th[t]) =>
             (mlock # t /\ lock[CPOf(t)] # t)]_vars

---------------------------------------------------------------------------
(* The relay of a response body: proxy_openai_request with and without 'stream',
   and proxy_to_vllm, against one worker that is ready and registered. *)

\* bytes of a body, and what the worker can send: 1..MaxChunks chunks of
\* 1..MaxChunkLen bytes
Bytes == {1, 2}
MaxChunkLen == 3
MaxChunks == 2
\* stands for chunk_size=4096 of resp.iter_content
IterChunkSize == 2

Chunks == UNION {[1..n -> Bytes] : n \in 1..MaxChunkLen}
Bodies == UNION {[1..n -> Chunks] : n \in 1..MaxChunks}

RECURSIVE Flatten(_)
\* the bytes of a sequence of chunks, in order: resp.content of the same answer
Flatten(chunks) == IF chunks = <<>> THEN <<>> ELSE Head(chunks) \o Flatten(Tail(chunks))

\* resp.iter_content(chunk_size): the next piece is the head of what the worker
\* sent, cut at chunk_size bytes
IterPiece(rest) ==
    LET c == Head(rest) IN
    IF Len(c) <= IterChunkSize THEN c ELSE SubSeq(c, 1, IterChunkSize)

\* what is left to relay after that piece
IterRest(rest) ==
    LET c == Head(rest) IN
    IF Len(c) <= IterChunkSize THEN Tail(rest)
    ELSE <<SubSeq(c, IterChunkSize + 1, Len(c))>> \o Tail(rest)

\* one worker of the model is ready and registered, in either implementation
InitStream ==
    /\ impl \in {"legacy", "redis"}
    /\ now = 1
    /\ lock = [c \in CPs |-> 0]
    /\ mlock = 0
    /\ th = [t \in Tasks |-> Idle]
    /\ procs = <<[port |-> VLLM_BASE_PORT, state |-> "ready"]>>
    /\ hist = [HistInit EXCEPT !.owners[VLLM_BASE_PORT] = 1, !.healthy = {1}]
    /\ IF impl = "redis"
       THEN /\ redis_ports = {VLLM_BASE_PORT}
            /\ redis_recs = RSet(EmptyMap, ServedRecord(1).instance_id, ServedRecord(1))
            /\ instances = EmptyMap
            /\ used_ports = {}
       ELSE /\ redis_ports = {}
            /\ redis_recs = EmptyMap
            /\ used_ports = {BASE_PORT}
            /\ instances =
                 LET m == CHOOSE m \in ModelNames : TRUE
                     inst == [LegacyNewInstance(m, BASE_PORT,
                                                CHOOSE to \in LegacyTimeoutArgs : TRUE)
                              EXCEPT !.process = 1, !.status = "running"]
                 IN RSet(EmptyMap, LegacyInstanceId(m, BASE_PORT), inst)

AllState == <<impl, now, procs, redis_ports, redis_recs, lock, instances,
              used_ports, mlock, hist>>

\* proxy_openai_request for a model with a running worker: inst.touch(); the body
\* says 'stream': true or not; body is what the worker will answer
LStreamCall(t, id, body, stream) ==
    /\ impl = "legacy" /\ th[t].pc = "idle"
    /\ id \in DOMAIN instances
    /\ instances[id].status = "running"
    /\ instances' = [instances EXCEPT ![id].last_active = now]
    /\ th' = [th EXCEPT ![t] = [Idle EXCEPT !.pc = "s_open", !.route = TRUE,
                                            !.op = IF stream THEN "stream" ELSE "plain",
                                            !.model = instances[id].model_name,
                                            !.inst = instances'[id], !.up = body]]
    /\ UNCHANGED <<RedisState, now, procs, used_ports, mlock, hist>>

\* proxy_openai_request: requests.request(..., stream=is_stream): on an exception
\* ({'message': ...}, 500); streaming: the generator over resp.iter_content is
\* returned and ChatCompletions.post hands it to Response; else resp.content
LStreamOpen(t) ==
    /\ impl = "legacy" /\ th[t].pc = "s_open"
    /\ IF ~Listening(th[t].inst.port)
       THEN th' = [th EXCEPT ![t].pc = "s_done",
                             ![t].code = PostStatus(LegacyForwardOnce(th[t].inst.port))]
       ELSE IF th[t].op = "stream"
       THEN th' = [th EXCEPT ![t].pc = "s_relay", ![t].rest = th[t].up,
                             ![t].code = PostStatus(LegacyForwardOnce(th[t].inst.port))]
       ELSE th' = [th EXCEPT ![t].pc = "s_done", ![t].out = <<Flatten(th[t].up)>>,
                             ![t].code = PostStatus(LegacyForwardOnce(th[t].inst.port))]
    /\ UNCHANGED AllState

\* generate(): for chunk in resp.iter_content(chunk_size=4096): if chunk: yield chunk
LStreamYield(t) ==
    /\ impl = "legacy" /\ th[t].pc = "s_relay"
    /\ IF th[t].rest = <<>>
       THEN th' = [th EXCEPT ![t].pc = "s_done"]
       ELSE th' = [th EXCEPT ![t].out = Append(@, IterPiece(th[t].rest)),
                             ![t].rest = IterRest(th[t].rest)]
    /\ UNCHANGED AllState

\* proxy_to_vllm for a worker that answers with text/event-stream
ApiStreamCall(t, id, body) ==
    /\ impl = "redis" /\ th[t].pc = "idle"
    /\ GetInstance(id) # NoInst
    /\ th' = [th EXCEPT ![t] = [Idle EXCEPT !.pc = "s_open", !.op = "stream", !.id = id,
                                            !.inst = GetInstance(id), !.up = body]]
    /\ UNCHANGED AllState

\* proxy_to_vllm: the forward raises before anything is read; HTTPException(500)
\* with no chunk of the worker's answer
ApiStreamOpen(t) ==
    /\ impl = "redis" /\ th[t].pc = "s_open"
    /\ th' = [th EXCEPT ![t].pc = "s_done", ![t].code = ForwardOnce(th[t].inst.port)]
    /\ UNCHANGED AllState

\* the response has been sent
StreamDone(t) ==
    /\ th[t].pc = "s_done"
    /\ Finish(t)
    /\ UNCHANGED AllState

\* the callers whose relay is followed: the relays of different calls share no state
StreamTasks == {1}

NextStream ==
    \/ \E t \in StreamTasks, id \in LegacyIds, body \in Bodies, stream \in BOOLEAN :
          LStreamCall(t, id, body, stream)
    \/ \E t \in StreamTasks : LStreamOpen(t)
    \/ \E t \in StreamTasks : LStreamYield(t)
    \/ \E t \in StreamTasks, id \in AllIds, body \in Bodies : ApiStreamCall(t, id, body)
    \/ \E t \in StreamTasks : ApiStreamOpen(t)
    \/ \E t \in StreamTasks : StreamDone(t)

SpecStream == InitStream /\ [][NextStream]_vars

\* C22: a streamed route relays the worker's bytes in the worker's order: when the
\* relay is over, the relayed chunks put together are the body that the same
\* answer gives without streaming.
C22_StreamEqualsAggregate ==
    \A t \in Tasks :
       (th[t].pc = "s_done" /\ th[t].op = "stream" /\ Listening(th[t].inst.port)) =>
          Flatten(th[t].out) = Flatten(th[t].up)

\* C23: the reaper tears down only what is expired when it tears it down: the step
\* of a sweep that stops a worker is taken on a record whose last_active is more
\* than its timeout ago at that moment.
C23_SweepTearsDownOnlyExpired ==
    [][\A t \in Tasks :
          (th[t].sweep /\ th[t].pc = "sweep_del" /\ th'[t].pc = "del_release") =>
             IsExpired(GetInstance(InstanceId(th[t].inst.model_name,
                                              th[t].inst.port)))]_vars

\* the process of a worker has exited in the state a step leads to
ExitedAfter(inst) ==
    LET pid == IF inst.process # 0 THEN inst.process ELSE inst.pid IN
    pid \in 1..Len(procs') => procs'[pid].state = "exited"

\* C24: when stop returns the worker's process has exited, with a process handle
\* (failed creation, legacy delete) and with the recorded PID only (delete and
\* reaper of the Redis manager).
C24_StopMeansExited ==
    [][\A t \in Tasks :
          /\ (th[t].pc = "health" /\ th'[t].pc = "rb_release") => ExitedAfter(th[t].inst)
          /\ (th[t].pc = "ex_stop" /\ th'[t].pc = "idle") => ExitedAfter(th[t].inst)
          /\ (th[t].pc = "ld_stop" /\ th'[t].pc = "idle") => ExitedAfter(th[t].inst)
          /\ (th[t].pc \in {"idle", "sweep_del"} /\ th'[t].pc = "del_release") =>
                ExitedAfter(th'[t].inst)]_vars

---------------------------------------------------------------------------
(* _perform_health_check poll by poll, against a worker that create_instance has
   launched and recorded as health_checking. *)

\* stands for health_check_timeout = 120 and for asyncio.sleep(2), in clock readings
HealthCheckTimeout == 2
PollInterval == 2
\* polls of one gate that are followed
MaxPolls == 3

InitPoll ==
    /\ impl = "redis"
    /\ now = 1
    /\ lock = [c \in CPs |-> 0]
    /\ instances = EmptyMap
    /\ used_ports = {}
    /\ mlock = 0
    /\ th = [t \in Tasks |-> Idle]
    /\ procs = <<[port |-> VLLM_BASE_PORT, state |-> "loading"]>>
    /\ redis_ports = {VLLM_BASE_PORT}
    /\ redis_recs = RSet(EmptyMap, ServedRecord(1).instance_id,
                         [ServedRecord(1) EXCEPT !.status = "health_checking"])
    /\ hist = [HistInit EXCEPT !.owners[VLLM_BASE_PORT] = 1]

\* what client.get(url, timeout=5) can end with: 200 from a worker that serves, a
\* connection error (0) or a non-success answer (503) from one that does not yet,
\* a connection error from one that is gone
PollOutcomes(port) ==
    IF Listening(port) THEN {200}
    ELSE IF \E pid \in 1..Len(procs) : procs[pid].port = port /\ Alive(pid)
    THEN {0, 503}
    ELSE {0}

\* start_time = time.time()
HcStart(t, id) ==
    /\ impl = "redis" /\ th[t].pc = "idle"
    /\ GetInstance(id) # NoInst
    /\ th' = [th EXCEPT ![t] = [Idle EXCEPT !.pc = "hc_poll", !.inst = GetInstance(id),
                                            !.start = now]]
    /\ UNCHANGED AllState

\* one pass of the loop: the while condition holds; response = await client.get(...):
\* 200: return True; another status: nothing else is done, the loop goes round;
\* a network error: the except clause raises TypeError (see RHealthNetError)
HcPoll(t, outcome) ==
    /\ impl = "redis" /\ th[t].pc = "hc_poll"
    /\ now - th[t].start < HealthCheckTimeout
    /\ th[t].i < MaxPolls
    /\ outcome \in PollOutcomes(th[t].inst.port)
    /\ th' = [th EXCEPT ![t].i = @ + 1, ![t].polled = now, ![t].code = outcome,
                        ![t].pc = IF outcome = 503 THEN "hc_poll" ELSE "hc_ret",
                        ![t].op = IF outcome = 200 THEN "true"
                                  ELSE IF outcome = 0 THEN "raised" ELSE @]
    /\ UNCHANGED AllState

\* the while condition fails: return False
HcTimeout(t) ==
    /\ impl = "redis" /\ th[t].pc = "hc_poll"
    /\ ~ (now - th[t].start < HealthCheckTimeout)
    /\ th' = [th EXCEPT ![t].pc = "hc_ret", ![t].op = "false"]
    /\ UNCHANGED AllState

\* back in create_instance
HcReturn(t) ==
    /\ impl = "redis" /\ th[t].pc = "hc_ret"
    /\ Finish(t)
    /\ UNCHANGED AllState

NextPoll ==
    \/ \E t \in Tasks, id \in AllIds : HcStart(t, id)
    \/ \E t \in Tasks, outcome \in {0, 200, 503} : HcPoll(t, outcome)
    \/ \E t \in Tasks : HcTimeout(t)
    \/ \E t \in Tasks : HcReturn(t)
    \/ Tick
    \/ \E pid \in 1..Len(procs) : ProcReady(pid)
    \/ \E pid \in 1..Len(procs) : ProcExit(pid)

SpecPoll == InitPoll /\ [][NextPoll]_vars

\* C25: two consecutive polls of a health gate are one polling interval apart,
\* whatever the first of them ended with.
C25_PollsOneIntervalApart ==
    [][\A t \in Tasks :
          (th[t].pc = "hc_poll" /\ th[t].i > 0 /\ th'[t].i = th[t].i + 1) =>
             now >= th[t].polled + PollInterval]_vars

---------------------------------------------------------------------------
(* The command line VLLMInstance.start builds from the parameters of a worker. *)

\* parameter keys, as character sequences: 'model', 'port', 'dtype', 'a_b'
ParamKeys == {<<"m", "o", "d", "e", "l">>, <<"p", "o", "r", "t">>,
              <<"d", "t", "y", "p", "e">>, <<"a", "_", "b">>}
\* parameter values: True, False, and a value that is no bool, with its str()
ParamValues == {[isbool |-> TRUE, b |-> TRUE, str |-> <<>>],
                [isbool |-> TRUE, b |-> FALSE, str |-> <<>>],
                [isbool |-> FALSE, b |-> FALSE, str |-> <<"1">>]}
\* entries of a parameter dict
MaxParams == 2

\* the dicts with at most MaxParams entries, in iteration order
ParamDicts ==
    {d \in UNION {[1..n -> ParamKeys \X ParamValues] : n \in 0..MaxParams} :
        \A i, j \in 1..Len(d) : i # j => d[i][1] # d[j][1]}

\* k.replace("_", "-")
KeyReplace(k) == [i \in 1..Len(k) |-> IF k[i] = "_" THEN "-" ELSE k[i]]

\* what one pass of "for k, v in self.params.items()" adds to cmd
ParamArgs(k, v) ==
    IF k \in {<<"m", "o", "d", "e", "l">>, <<"p", "o", "r", "t">>} THEN <<>>
    ELSE IF v.isbool
    THEN IF v.b THEN << <<"-", "-">> \o k >> ELSE <<>>
    ELSE << <<"-", "-">> \o KeyReplace(k), v.str >>

RECURSIVE ExtraArgs(_)
\* the arguments the loop appends after '--model', model_name, '--port', str(port)
ExtraArgs(params) ==
    IF params = <<>> THEN <<>>
    ELSE ParamArgs(Head(params)[1], Head(params)[2]) \o ExtraArgs(Tail(params))

InitCmd ==
    /\ impl = "redis"
    /\ InitCommon

\* start(): the command is built and the process is created
BuildCmd(t, params) ==
    /\ impl = "redis" /\ th[t].pc = "idle"
    /\ CanSpawn
    /\ procs' = Spawn(VLLM_BASE_PORT)
    /\ th' = [th EXCEPT ![t] = [Idle EXCEPT !.pc = "cmd", !.params = params,
                                            !.cmd = ExtraArgs(params)]]
    /\ UNCHANGED <<LegacyState, now, redis_ports, redis_recs, lock, hist>>

\* start() returns
CmdDone(t) ==
    /\ impl = "redis" /\ th[t].pc = "cmd"
    /\ Finish(t)
    /\ UNCHANGED AllState

NextCmd ==
    \/ \E t \in StreamTasks, params \in ParamDicts : BuildCmd(t, params)
    \/ \E t \in StreamTasks : CmdDone(t)

SpecCmd == InitCmd /\ [][NextCmd]_vars

\* C26: for every parameter key other than model and port the command line has the
\* bare flag when the value is True, nothing when it is False, and the flag followed
\* by the value otherwise, the flag being "--" and the key with '_' replaced by '-'.
C26_FlagsFromParams ==
    \A t \in Tasks :
       th[t].pc = "cmd" =>
          \A j \in 1..Len(th[t].params) :
             LET k == th[t].params[j][1]
                 v == th[t].params[j][2]
                 flag == <<"-", "-">> \o KeyReplace(k)
                 cmd == th[t].cmd
             IN k \notin {<<"m", "o", "d", "e", "l">>, <<"p", "o", "r", "t">>} =>
                   IF v.isbool
                   THEN IF v.b THEN \E n \in 1..Len(cmd) : cmd[n] = flag
                        ELSE \A n \in 1..Len(cmd) : cmd[n] # flag
                   ELSE \E n \in 1..(Len(cmd) - 1) : cmd[n] = flag /\ cmd[n + 1] = v.str

\* C27: the rollback of a failed creation takes no port claim and no record from
\* another creation: while another creation that claimed the same port afterwards
\* is launching or gating its worker, a release of the rollback leaves the port
\* claimed and a delete of the rollback leaves that creation's record.
C27_RollbackTouchesOnlyOwn ==
    [][\A t \in Tasks : \A u \in Tasks \ {t} :
          (/\ th[t].pc \in {"rb_release", "rb_delete", "ex_release", "ex_delete"}
           /\ th'[t].pc # th[t].pc
           /\ th[u].pc \in {"start", "health", "healthy"}
           /\ th[u].inst.port = th[t].inst.port) =>
             /\ th[u].inst.port \in redis_ports => th[u].inst.port \in redis_ports'
             /\ LET id == InstanceId(th[u].inst.model_name, th[u].inst.port) IN
                (id \in DOMAIN redis_recs /\ redis_recs[id].pid = th[u].inst.pid) =>
                   id \in DOMAIN redis_recs']_vars

\* C28: in every teardown (delete, reaper, rollback of a failed creation) the port
\* is released only once the worker's process has been terminated: after a step
\* that releases the port of a worker, that worker's process is not alive.
C28_ReleaseAfterTermination ==
    [][\A t \in Tasks :
          (/\ th[t].pc \in {"rb_release", "ex_release", "del_release", "ld_stop"}
           /\ th'[t].pc # th[t].pc) =>
             ExitedAfter(th[t].inst)]_vars

\* C29: no operation of the manager waits for the manager lock forever: a create,
\* delete or sweep that is waiting for the lock eventually has taken it and given
\* it back.
C29_LockEventuallyReleased ==
    \A t \in Tasks :
       (th[t].pc \in {"lc_lock", "ld_lock", "ls_lock"})
          ~> (th[t].pc \notin {"lc_lock", "ld_lock", "ls_lock"} /\ mlock # t)

====
